---- MODULE Spec2Model ----
(***************************************************************************)
(* Model of the GPU magnetic pendulum engine (src/src/sim.rs) and of its   *)
(* host (src/src/main.rs).                                                 *)
(*                                                                         *)
(* Numbers.  f32 values are modelled by exact arithmetic on integers:      *)
(*   - scale and positions are in thousandths (scale 1.0 is 1000);         *)
(*   - velocity_magnitude and velocities are in tenths (4.0 is 40);        *)
(*   - r, d, mu, c, dt are in thousandths (dt 0.006 is 6);                 *)
(*   - velocity_angle is in degrees, a multiple of 45 (PI/2 is 90).        *)
(* A vector is a record [x, y, den, rad] standing for                      *)
(* (x, y) / (den * sqrt(rad)), so that normalised vectors and rotations by *)
(* multiples of 45 degrees are exact.  Rounding of f32 is not modelled.    *)
(*                                                                         *)
(* The kernel.  shader.wgsl is not among the sources; comp_main and        *)
(* fs_main follow the design document: one invocation per particle, an     *)
(* explicit integration step that changes nothing when dt = 0, and a texel *)
(* keyed by one scalar of the particle (its distance from the centre or    *)
(* its speed; which one is fixed per run by the variable observable).  A   *)
(* particle that has been stepped is the term (seed, steps): equal terms   *)
(* are equal particles.                                                    *)
(***************************************************************************)
EXTENDS Integers, Sequences, FiniteSets, TLC

VARIABLES
    width, height, scale,   \* GPUSimApp.width/height/_scale = GPUSim._width/_height/_scale
    params,                 \* GPUSimApp.sim.params
    is_paused,              \* GPUSimApp.is_paused
    callback_resources,     \* the renderer's registry entry: GPUSimResources or None
    objects,                \* the device's live objects: id -> [kind, contents]
    next_id,                \* the next fresh object id of the device
    observable,             \* which scalar of a particle the kernel colours by
    pc,                     \* position inside one redraw
    callback,               \* the paint callback added by update (a copy of sim)
    commands,               \* command buffers returned by prepare and the render pass
    queue,                  \* submitted, not yet executed GPU commands
    surface,                \* what the last render pass drew
    frames,                 \* number of redraws started
    edits,                  \* number of redraws that changed sim.params
    frame_log,              \* engine entry points invoked in the current redraw
    last_event,             \* the UI event handled by the current redraw
    compute_log,            \* the dt given to each compute pass executed so far
    cp_in, cp_prev, cp_out  \* create_particles called on its own: arguments, results

vars == <<width, height, scale, params, is_paused, callback_resources, objects,
          next_id, observable, pc, callback, commands, queue, surface, frames,
          edits, frame_log, last_event, compute_log, cp_in, cp_prev, cp_out>>

engine_vars == <<width, height, scale, params, is_paused, callback_resources,
                 objects, next_id, observable, pc, callback, commands, queue,
                 surface, frames, edits, frame_log, last_event, compute_log>>

harness_vars == <<cp_in, cp_prev, cp_out>>

\* Option<T>: None is the empty sequence, Some(x) the sequence of x alone
None == <<>>
Some(x) == <<x>>

\* ---------------------------------------------------------------- bounds
MaxDim == 4          \* create_particles on its own: width, height in 0..MaxDim
MaxFrames == 3       \* redraws per run
MaxEdits == 1        \* redraws per run that change sim.params

\* ---------------------------------------------------------------- numbers
PI_2 == 90           \* PI / 2.0 in degrees
TAU == 360

Abs(a) == IF a < 0 THEN -a ELSE a

RECURSIVE Gcd(_, _)
Gcd(a, b) == IF b = 0 THEN a ELSE Gcd(b, a % b)

ZERO == [x |-> 0, y |-> 0, den |-> 1, rad |-> 1]

NaN == [x |-> 0, y |-> 0, den |-> 0, rad |-> 0]

\* the squared length of v is Len2Num(v) / Len2Den(v)
Len2Num(v) == v.x * v.x + v.y * v.y
Len2Den(v) == v.den * v.den * v.rad

\* Vec2::from_angle: (cos a, sin a)
from_angle(a) ==
    LET t == a % TAU IN
    CASE t = 0   -> [x |-> 1,  y |-> 0,  den |-> 1, rad |-> 1]
      [] t = 45  -> [x |-> 1,  y |-> 1,  den |-> 1, rad |-> 2]
      [] t = 90  -> [x |-> 0,  y |-> 1,  den |-> 1, rad |-> 1]
      [] t = 135 -> [x |-> -1, y |-> 1,  den |-> 1, rad |-> 2]
      [] t = 180 -> [x |-> -1, y |-> 0,  den |-> 1, rad |-> 1]
      [] t = 225 -> [x |-> -1, y |-> -1, den |-> 1, rad |-> 2]
      [] t = 270 -> [x |-> 0,  y |-> -1, den |-> 1, rad |-> 1]
      [] OTHER   -> [x |-> 1,  y |-> -1, den |-> 1, rad |-> 2]

\* a unit vector in lowest terms: (x, y) / sqrt(x^2 + y^2) with gcd(x, y) = 1
unit(x, y) ==
    LET g == Gcd(Abs(x), Abs(y)) IN
    [x |-> x \div g, y |-> y \div g, den |-> 1,
     rad |-> (x \div g) * (x \div g) + (y \div g) * (y \div g)]

\* Vec2::normalize: v / |v|; the zero vector has no direction (0/0)
normalize(v) == IF v.x = 0 /\ v.y = 0 THEN NaN ELSE unit(v.x, v.y)

\* Vec2::rotate: complex multiplication, here of two unit vectors
rotate(v, r) ==
    IF v = NaN \/ r = NaN THEN NaN
    ELSE unit(v.x * r.x - v.y * r.y, v.y * r.x + v.x * r.y)

\* f32 * Vec2 for a unit vector v; m is in tenths
scaled(m, v) ==
    IF v = NaN THEN NaN
    ELSE IF m = 0 THEN ZERO
    ELSE [x |-> m * v.x, y |-> m * v.y, den |-> 1, rad |-> v.rad]

\* u.length() > 0.001, u in thousandths
length_gt_threshold(u) == Len2Num(u) > Len2Den(u)

\* ---------------------------------------------------------------- #[repr(C)] layouts
\* size and alignment of a field type; a glam Vec2 is two f32
size_of_ty(ty) == IF ty = "Vec2" THEN 8 ELSE 4
align_of_ty(ty) == 4
scalars_of_ty(ty) == IF ty = "Vec2" THEN <<"f32", "f32">> ELSE <<ty>>

round_up(n, a) == ((n + a - 1) \div a) * a

\* repr(C): fields in declaration order, each at the next offset of its alignment
RECURSIVE end_of(_, _)
end_of(fields, k) ==
    IF k = 0 THEN 0
    ELSE round_up(end_of(fields, k - 1), align_of_ty(fields[k][2])) + size_of_ty(fields[k][2])

size_of(fields) == round_up(end_of(fields, Len(fields)), 4)

RECURSIVE bytes_of(_, _)
bytes_of(fields, k) ==
    IF k = 0 THEN 0 ELSE bytes_of(fields, k - 1) + size_of_ty(fields[k][2])

RECURSIVE scalars_of(_, _)
scalars_of(fields, k) ==
    IF k = 0 THEN <<>> ELSE scalars_of(fields, k - 1) \o scalars_of_ty(fields[k][2])

Particle_fields == << <<"u", "Vec2">>, <<"du", "Vec2">> >>

Params_fields_mutant_no_padding ==
    << <<"n", "u32">>, <<"r", "f32">>, <<"d", "f32">>, <<"mu", "f32">>, <<"c", "f32">>,
       <<"dt", "f32">>, <<"w", "u32">>, <<"h", "u32">>, <<"velocity_magnitude", "f32">>,
       <<"velocity_angle", "f32">>, <<"velocity_pattern", "u32">> >>

Params_fields ==
    << <<"n", "u32">>, <<"r", "f32">>, <<"d", "f32">>, <<"mu", "f32">>, <<"c", "f32">>,
       <<"dt", "f32">>, <<"w", "u32">>, <<"h", "u32">>, <<"velocity_magnitude", "f32">>,
       <<"velocity_angle", "f32">>, <<"velocity_pattern", "u32">>, <<"_padding", "f32">> >>

field_names(fields) == {fields[k][1] : k \in DOMAIN fields}

\* ---------------------------------------------------------------- Params
\* the struct literal of GPUSim::new
new_params(w, h) ==
    [n |-> 5, r |-> 3000, d |-> 400, mu |-> 200, c |-> 200, w |-> w, h |-> h,
     dt |-> 6, velocity_magnitude |-> 40, velocity_angle |-> PI_2,
     velocity_pattern |-> 1, _padding |-> 0]

\* ---------------------------------------------------------------- seeding
\* the position of grid cell i: (vec2(col / width, row / height) - 0.5) * scale
position_mutant_rows(i, w, h, s) ==
    [x |-> (2 * (i % w) - w) * h * s, y |-> (2 * (i \div h) - h) * w * s,
     den |-> 2 * w * h, rad |-> 1]

position(i, w, h, s) ==
    [x |-> (2 * (i % w) - w) * h * s, y |-> (2 * (i \div w) - h) * w * s,
     den |-> 2 * w * h, rad |-> 1]

perp(u) == [x |-> -u.y, y |-> u.x, den |-> u.den, rad |-> u.rad]

\* arm 0, radial: velocity points away from the centre
radial_mutant_no_fallback(u, p) ==
    scaled(p.velocity_magnitude, rotate(normalize(u), from_angle(p.velocity_angle)))

radial(u, p) ==
    IF length_gt_threshold(u)
    THEN scaled(p.velocity_magnitude,
                rotate(normalize(u), from_angle(p.velocity_angle)))
    ELSE scaled(p.velocity_magnitude, from_angle(p.velocity_angle))

\* arm 1, tangential: velocity perpendicular to the position
tangential_mutant_no_rotation(u, p) ==
    IF length_gt_threshold(u)
    THEN scaled(p.velocity_magnitude, normalize(perp(u)))
    ELSE scaled(p.velocity_magnitude, from_angle(p.velocity_angle + PI_2))

tangential(u, p) ==
    IF length_gt_threshold(u)
    THEN scaled(p.velocity_magnitude,
                rotate(normalize(perp(u)), from_angle(p.velocity_angle)))
    ELSE scaled(p.velocity_magnitude, from_angle(p.velocity_angle + PI_2))

\* arm 2, uniform: every particle has the same velocity
uniform_mutant_uses_position(u, p) == radial(u, p)

uniform(u, p) == scaled(p.velocity_magnitude, from_angle(p.velocity_angle))

\* the match on params.velocity_pattern
velocity_mutant_reads_n(u, p) ==
    CASE p.velocity_pattern = 0 -> radial(u, p)
      [] p.velocity_pattern = 1 -> tangential(u, p)
      [] p.velocity_pattern = 2 -> uniform(u, [p EXCEPT !.velocity_magnitude = @ + p.n])
      [] OTHER -> ZERO

velocity_mutant_zero_is_3(u, p) ==
    CASE p.velocity_pattern = 0 -> radial(u, p)
      [] p.velocity_pattern = 1 -> tangential(u, p)
      [] p.velocity_pattern = 3 -> ZERO
      [] OTHER -> uniform(u, p)

velocity(u, p) ==
    CASE p.velocity_pattern = 0 -> radial(u, p)
      [] p.velocity_pattern = 1 -> tangential(u, p)
      [] p.velocity_pattern = 2 -> uniform(u, p)
      [] OTHER -> ZERO

\* GPUSim::create_particles, one particle per i in 0..width*height
create_particles_mutant_short(w, h, s, p) ==
    [k \in 1..(w * h - 1) |->
        LET u == position(k - 1, w, h, s)
        IN  [u |-> u, du |-> velocity(u, p)]]

create_particles(w, h, s, p) ==
    [k \in 1..(w * h) |->
        LET u == position(k - 1, w, h, s)
        IN  [u |-> u, du |-> velocity(u, p)]]

\* ---------------------------------------------------------------- create_particles on its own
Dims == 0..MaxDim
Scales == {0, 1, 2, 3, 1000}
Patterns == {0, 1, 2, 3, 7}
Magnitudes == {0, 40, 100}
Angles == {0, 45, 90, 135, 180, 225, 270, 315}

\* values of the fields create_particles is given but is not meant to read
OtherFields ==
    { [n |-> 5, r |-> 3000, d |-> 400, mu |-> 200, c |-> 200, dt |-> 6],
      [n |-> 0, r |-> 2500, d |-> 200, mu |-> 50, c |-> 100, dt |-> -8] }

with_other(p, o) ==
    [p EXCEPT !.n = o.n, !.r = o.r, !.d = o.d, !.mu = o.mu, !.c = o.c, !.dt = o.dt]

SeedArgs ==
    { [width |-> w, height |-> h, scale |-> s,
       params |-> with_other([new_params(w, h) EXCEPT !.velocity_pattern = vp,
                                                     !.velocity_magnitude = vm,
                                                     !.velocity_angle = va], o)] :
        w \in Dims, h \in Dims, s \in Scales, vp \in Patterns, vm \in Magnitudes,
        va \in Angles, o \in OtherFields }

Call ==
    /\ cp_out = None
    /\ LET a == cp_in[1]
       IN  cp_out' = Some(create_particles(a.width, a.height, a.scale, a.params))
    /\ UNCHANGED <<cp_in, cp_prev>>
    /\ UNCHANGED engine_vars

\* a second call that differs from the first in n, r, d, mu, c and dt only
CallAgain ==
    /\ cp_out # None
    /\ cp_prev = None
    /\ \E o \in OtherFields :
         /\ [f \in {"n", "r", "d", "mu", "c", "dt"} |-> cp_in[1].params[f]] # o
         /\ cp_in' = Some([cp_in[1] EXCEPT !.params = with_other(@, o)])
    /\ cp_prev' = cp_out
    /\ LET a == cp_in'[1]
       IN  cp_out' = Some(create_particles(a.width, a.height, a.scale, a.params))
    /\ UNCHANGED engine_vars

\* ---------------------------------------------------------------- the device
TWILIGHT_MAP == "TWILIGHT_MAP"

\* the full-screen quad: 4 vertices of a triangle strip, position and uv
QUAD == << <<-1, -1, 0, 0>>, <<1, -1, 1, 0>>, <<-1, 1, 0, 1>>, <<1, 1, 1, 1>> >>

\* a texel of a texture the device has just created: wgpu zero-initialises it
ZeroTexel_mutant_uninitialised == [src |-> "undefined", val |-> <<0, 0>>, hist |-> <<>>]

ZeroTexel == [src |-> "zero", val |-> <<0, 0>>, hist |-> <<>>]

obj(kind, label, contents) == [kind |-> kind, label |-> label, contents |-> contents]

\* the contents of a particle buffer initialised from a Vec<Particle>
particle_bytes(particles) ==
    [k \in DOMAIN particles |->
        [u |-> particles[k].u, du |-> particles[k].du, steps |-> <<>>]]

\* the four entries of the compute bind group layout
bg_layout_entries ==
    << [binding |-> 0, visibility |-> {"COMPUTE", "VERTEX", "FRAGMENT"}, ty |-> "Uniform"],
       [binding |-> 1, visibility |-> {"COMPUTE"}, ty |-> "Storage"],
       [binding |-> 2, visibility |-> {"COMPUTE"}, ty |-> "StorageTexture:WriteOnly"],
       [binding |-> 3, visibility |-> {"COMPUTE"}, ty |-> "Storage:read_only"] >>

render_bg_layout_entries ==
    << [binding |-> 0, visibility |-> {"FRAGMENT"}, ty |-> "Texture"],
       [binding |-> 1, visibility |-> {"FRAGMENT"}, ty |-> "Sampler"] >>

\* GPUSim::new: the objects it creates, in creation order, and the registry entry
new(w, h, s) ==
    LET p == new_params(w, h)
        particles == create_particles(w, h, s, p)
    IN  [ params |-> p,
          objects |->
            << obj("buffer", "particles", p),                                \* 1 param_buffer
               obj("buffer", "particles", particle_bytes(particles)),        \* 2 particle_buf
               obj("buffer", "colormap", TWILIGHT_MAP),                      \* 3 colormap_buf
               obj("bind_group_layout", "Avaialable Buffers", bg_layout_entries), \* 4
               obj("shader_module", "shader.wgsl", "wgsl"),                    \* 5
               obj("pipeline_layout", "update layout", <<4>>),               \* 6
               obj("compute_pipeline", "Compute pipeline", [layout |-> 6, module |-> 5]), \* 7
               obj("texture", "magpen texture",
                   [width |-> w, height |-> h,
                    texels |-> [k \in 1..(w * h) |-> ZeroTexel]]),           \* 8 tex
               obj("texture_view", "magpen texture id", 8),                  \* 9 texview
               obj("bind_group_layout", "Render Layout", render_bg_layout_entries), \* 10
               obj("pipeline_layout", "render pipeline layout", <<10>>),     \* 11
               obj("render_pipeline", "Render pipeline", [layout |-> 11, module |-> 5]), \* 12
               obj("sampler", "sampler", "Linear"),                          \* 13
               obj("bind_group", "render_bg", [layout |-> 10, entries |-> <<9, 13>>]), \* 14
               obj("bind_group", "bind_group",
                   [layout |-> 4, entries |-> <<1, 2, 9, 3>>]),              \* 15
               obj("buffer", "vertex", QUAD) >>,                             \* 16 vertex_buffer
          next_id |-> 17,
          callback_resources |->
            [bind_group |-> 15, param_buffer |-> 1, compute_pipeline |-> 7,
             render_bg |-> 14, render_pipeline |-> 12, vertex_buffer |-> 16,
             _output_tex |-> <<8, 9>>] ]

\* ids some live object refers to, starting from the registry entry and the pipelines
refs(objs, id) ==
    LET o == objs[id] IN
    CASE o.kind = "bind_group" -> {o.contents.layout} \cup
                                  {o.contents.entries[k] : k \in DOMAIN o.contents.entries}
      [] o.kind = "pipeline_layout" -> {o.contents[k] : k \in DOMAIN o.contents}
      [] o.kind \in {"compute_pipeline", "render_pipeline"} ->
                                  {o.contents.layout, o.contents.module}
      [] o.kind = "texture_view" -> {o.contents}
      [] OTHER -> {}

roots(res) ==
    {res.bind_group, res.param_buffer, res.compute_pipeline, res.render_bg,
     res.render_pipeline, res.vertex_buffer, res._output_tex[1], res._output_tex[2]}

RECURSIVE reachable(_, _)
reachable(objs, ids) ==
    LET more == ids \cup UNION {refs(objs, id) : id \in ids}
    IN  IF more = ids THEN ids ELSE reachable(objs, more)

\* dropping the last handle of an object frees it
release(objs, res) ==
    LET live == reachable(objs, roots(res))
    IN  [id \in live |-> objs[id]]

\* GPUSim::restart: a new particle buffer, colormap buffer, layout and bind group
restart_mutant_keeps_buffer(res_opt, objs, n, w, h, s, p) ==
    IF res_opt = None
    THEN [callback_resources |-> res_opt, objects |-> objs, next_id |-> n]
    ELSE
      LET res == res_opt[1]
          old == objs[res.bind_group].contents.entries
          made == objs @@
                  (n     :> obj("buffer", "colormap", TWILIGHT_MAP)) @@
                  (n + 1 :> obj("bind_group_layout", "Avaialable Buffers", bg_layout_entries)) @@
                  (n + 2 :> obj("bind_group", "bind_group",
                                [layout |-> n + 1,
                                 entries |-> <<res.param_buffer, old[2],
                                               res._output_tex[2], n>>]))
          res2 == [res EXCEPT !.bind_group = n + 2]
      IN  [callback_resources |-> Some(res2), objects |-> release(made, res2),
           next_id |-> n + 3]

restart_mutant_seeds_defaults(res_opt, objs, n, w, h, s, p) ==
    LET particles == create_particles(w, h, s, new_params(w, h)) IN
    IF res_opt = None
    THEN [callback_resources |-> res_opt, objects |-> objs, next_id |-> n]
    ELSE
      LET res == res_opt[1]
          made == objs @@
                  (n     :> obj("buffer", "particles", particle_bytes(particles))) @@
                  (n + 1 :> obj("buffer", "colormap", TWILIGHT_MAP)) @@
                  (n + 2 :> obj("bind_group_layout", "Avaialable Buffers", bg_layout_entries)) @@
                  (n + 3 :> obj("bind_group", "bind_group",
                                [layout |-> n + 2,
                                 entries |-> <<res.param_buffer, n,
                                               res._output_tex[2], n + 1>>]))
          res2 == [res EXCEPT !.bind_group = n + 3]
      IN  [callback_resources |-> Some(res2), objects |-> release(made, res2),
           next_id |-> n + 4]

restart_mutant_new_image(res_opt, objs, n, w, h, s, p) ==
    LET particles == create_particles(w, h, s, p) IN
    IF res_opt = None
    THEN [callback_resources |-> res_opt, objects |-> objs, next_id |-> n]
    ELSE
      LET res == res_opt[1]
          made == objs @@
                  (n     :> obj("buffer", "particles", particle_bytes(particles))) @@
                  (n + 1 :> obj("buffer", "colormap", TWILIGHT_MAP)) @@
                  (n + 2 :> obj("bind_group_layout", "Avaialable Buffers", bg_layout_entries)) @@
                  (n + 3 :> obj("texture", "magpen texture",
                                [width |-> w, height |-> h,
                                 texels |-> [k \in 1..(w * h) |-> ZeroTexel]])) @@
                  (n + 4 :> obj("texture_view", "magpen texture id", n + 3)) @@
                  (n + 5 :> obj("bind_group", "bind_group",
                                [layout |-> n + 2,
                                 entries |-> <<res.param_buffer, n, n + 4, n + 1>>]))
          res2 == [res EXCEPT !.bind_group = n + 5]
      IN  [callback_resources |-> Some(res2), objects |-> release(made, res2),
           next_id |-> n + 6]

restart_mutant_unregisters(res_opt, objs, n, w, h, s, p) ==
    LET particles == create_particles(w, h, s, p) IN
    IF res_opt = None
    THEN [callback_resources |-> res_opt, objects |-> objs, next_id |-> n]
    ELSE
      LET res == res_opt[1]
          made == objs @@
                  (n     :> obj("buffer", "particles", particle_bytes(particles))) @@
                  (n + 1 :> obj("buffer", "colormap", TWILIGHT_MAP)) @@
                  (n + 2 :> obj("bind_group_layout", "Avaialable Buffers", bg_layout_entries)) @@
                  (n + 3 :> obj("bind_group", "bind_group",
                                [layout |-> n + 2,
                                 entries |-> <<res.param_buffer, n,
                                               res._output_tex[2], n + 1>>]))
          res2 == [res EXCEPT !.bind_group = n + 3]
      IN  [callback_resources |-> None, objects |-> release(made, res2),
           next_id |-> n + 4]

restart_mutant_clears_image(res_opt, objs, n, w, h, s, p) ==
    LET particles == create_particles(w, h, s, p) IN
    IF res_opt = None
    THEN [callback_resources |-> res_opt, objects |-> objs, next_id |-> n]
    ELSE
      LET res == res_opt[1]
          cleared == [objs EXCEPT ![res._output_tex[1]].contents.texels =
                                     [k \in DOMAIN @ |-> ZeroTexel]]
          made == cleared @@
                  (n     :> obj("buffer", "particles", particle_bytes(particles))) @@
                  (n + 1 :> obj("buffer", "colormap", TWILIGHT_MAP)) @@
                  (n + 2 :> obj("bind_group_layout", "Avaialable Buffers", bg_layout_entries)) @@
                  (n + 3 :> obj("bind_group", "bind_group",
                                [layout |-> n + 2,
                                 entries |-> <<res.param_buffer, n,
                                               res._output_tex[2], n + 1>>]))
          res2 == [res EXCEPT !.bind_group = n + 3]
      IN  [callback_resources |-> Some(res2), objects |-> release(made, res2),
           next_id |-> n + 4]

restart(res_opt, objs, n, w, h, s, p) ==
    LET particles == create_particles(w, h, s, p) IN
    IF res_opt = None
    THEN [callback_resources |-> res_opt, objects |-> objs, next_id |-> n]
    ELSE
      LET res == res_opt[1]
          made == objs @@
                  (n     :> obj("buffer", "particles", particle_bytes(particles))) @@
                  (n + 1 :> obj("buffer", "colormap", TWILIGHT_MAP)) @@
                  (n + 2 :> obj("bind_group_layout", "Avaialable Buffers", bg_layout_entries)) @@
                  (n + 3 :> obj("bind_group", "bind_group",
                                [layout |-> n + 2,
                                 entries |-> <<res.param_buffer, n,
                                               res._output_tex[2], n + 1>>]))
          res2 == [res EXCEPT !.bind_group = n + 3]
      IN  [callback_resources |-> Some(res2), objects |-> release(made, res2),
           next_id |-> n + 4]

\* ---------------------------------------------------------------- the compute kernel
\* the fields of the uniform the integration step reads
dynamics(uni) == <<uni.n, uni.r, uni.d, uni.mu, uni.c, uni.dt>>

\* one explicit integration step of one particle: u += dt * du, du += dt * a
update_particle(p, uni) ==
    IF uni.dt = 0 THEN p ELSE [p EXCEPT !.steps = Append(@, dynamics(uni))]

\* the scalar the colormap is indexed by, as a fraction <<numerator, denominator>>
fraction(a, b) == LET g == Gcd(a, b) IN <<a \div g, b \div g>>

observe(p) ==
    IF observable = "distance" THEN fraction(Len2Num(p.u), Len2Den(p.u))
    ELSE fraction(Len2Num(p.du), Len2Den(p.du))

texel_of(p) ==
    IF p.steps = <<>>
    THEN [src |-> "seed", val |-> observe(p), hist |-> <<>>]
    ELSE [src |-> "evolved", val |-> observe(p), hist |-> <<p.u, p.du, p.steps>>]

\* invocation (gx, gy) of a dispatch of x by y workgroups handles particle gy * w + gx
covered(k, uni, x, y) == ((k - 1) % uni.w) < x /\ ((k - 1) \div uni.w) < y

\* the compute pass on the objects of a bind group
comp_main(objs, bg, x, y) ==
    LET e == objs[bg].contents.entries
        uni == objs[e[1]].contents
        tex == objs[e[3]].contents
        ps == objs[e[2]].contents
        ps2 == [k \in DOMAIN ps |->
                  IF covered(k, uni, x, y) THEN update_particle(ps[k], uni) ELSE ps[k]]
        img == objs[tex].contents
        tx2 == [k \in DOMAIN img.texels |->
                  IF k \in DOMAIN ps /\ covered(k, uni, x, y)
                  THEN texel_of(ps2[k]) ELSE img.texels[k]]
    IN  [objs EXCEPT ![e[2]].contents = ps2, ![tex].contents.texels = tx2]

\* the render pass: the quad samples the whole image of the render bind group
fs_main(objs, bg) ==
    LET e == objs[bg].contents.entries
    IN  objs[objs[e[1]].contents].contents.texels

\* ---------------------------------------------------------------- CallbackTrait for GPUSim
\* prepare: upload self.params, record the compute pass; unwrap panics on None
prepare_mutant_no_upload(res_opt, objs, p) ==
    IF res_opt = None
    THEN [panicked |-> TRUE, objects |-> objs, commands |-> <<>>]
    ELSE LET res == res_opt[1] IN
         [panicked |-> FALSE,
          objects |-> objs,
          commands |-> << [op |-> "compute", pipeline |-> res.compute_pipeline,
                           bind_group |-> res.bind_group, x |-> p.w, y |-> p.h] >>]

prepare_mutant_clamps_dt(res_opt, objs, p) ==
    IF res_opt = None
    THEN [panicked |-> TRUE, objects |-> objs, commands |-> <<>>]
    ELSE LET res == res_opt[1] IN
         [panicked |-> FALSE,
          objects |-> [objs EXCEPT ![res.param_buffer].contents =
                                      [p EXCEPT !.dt = IF p.dt < 0 THEN 0 ELSE p.dt]],
          commands |-> << [op |-> "compute", pipeline |-> res.compute_pipeline,
                           bind_group |-> res.bind_group, x |-> p.w, y |-> p.h] >>]

prepare_mutant_swaps_dims(res_opt, objs, p) ==
    IF res_opt = None
    THEN [panicked |-> TRUE, objects |-> objs, commands |-> <<>>]
    ELSE LET res == res_opt[1] IN
         [panicked |-> FALSE,
          objects |-> [objs EXCEPT ![res.param_buffer].contents = p],
          commands |-> << [op |-> "compute", pipeline |-> res.compute_pipeline,
                           bind_group |-> res.bind_group, x |-> p.h, y |-> p.w] >>]

prepare(res_opt, objs, p) ==
    IF res_opt = None
    THEN [panicked |-> TRUE, objects |-> objs, commands |-> <<>>]
    ELSE LET res == res_opt[1] IN
         [panicked |-> FALSE,
          objects |-> [objs EXCEPT ![res.param_buffer].contents = p],
          commands |-> << [op |-> "compute", pipeline |-> res.compute_pipeline,
                           bind_group |-> res.bind_group, x |-> p.w, y |-> p.h] >>]

\* paint: pipeline, vertex buffer, render bind group, draw(0..4, 0..1)
paint_mutant_binds_compute_group(res_opt) ==
    IF res_opt = None
    THEN [panicked |-> TRUE, commands |-> <<>>]
    ELSE LET res == res_opt[1] IN
         [panicked |-> FALSE,
          commands |-> << [op |-> "draw", pipeline |-> res.render_pipeline,
                           bind_group |-> res.bind_group,
                           vertex_buffer |-> res.vertex_buffer, x |-> 4, y |-> 1] >>]

paint(res_opt) ==
    IF res_opt = None
    THEN [panicked |-> TRUE, commands |-> <<>>]
    ELSE LET res == res_opt[1] IN
         [panicked |-> FALSE,
          commands |-> << [op |-> "draw", pipeline |-> res.render_pipeline,
                           bind_group |-> res.render_bg,
                           vertex_buffer |-> res.vertex_buffer, x |-> 4, y |-> 1] >>]

\* ---------------------------------------------------------------- GPUSimApp::update
\* the end of update: one paint callback holding a copy of sim, dt = 0 when paused
paint_callback_mutant_skip_paused(p, paused) ==
    IF ~paused THEN Some([params |-> p]) ELSE None

paint_callback(p, paused) ==
    IF ~paused THEN Some([params |-> p])
    ELSE Some([params |-> [p EXCEPT !.dt = 0]])

\* one run of update that handled UI event ev, leaving sim.params = p, is_paused = paused
begin_frame(ev, p, paused) ==
    /\ pc = "update"
    /\ frames < MaxFrames
    /\ params' = p
    /\ is_paused' = paused
    /\ callback' = paint_callback(p, paused)
    /\ pc' = "prepare"
    /\ frames' = frames + 1
    /\ IF ev \in {"edit", "reset"}
       THEN edits < MaxEdits /\ edits' = edits + 1
       ELSE edits' = edits
    /\ frame_log' = <<>>
    /\ last_event' = ev
    /\ UNCHANGED <<width, height, scale, observable, commands, queue, surface,
                   compute_log>>
    /\ UNCHANGED harness_vars

same_device == UNCHANGED <<callback_resources, objects, next_id>>

\* values the sliders are moved to: the ends of their ranges
Redraw == begin_frame("none", params, is_paused) /\ same_device

TogglePause_mutant_stores_dt ==
    begin_frame("toggle", [params EXCEPT !.dt = IF is_paused THEN @ ELSE 0], ~is_paused)
    /\ same_device

TogglePause == begin_frame("toggle", params, ~is_paused) /\ same_device

EditN ==
    \E v \in {3, 10} :
        begin_frame("edit", [params EXCEPT !.n = v], is_paused) /\ same_device

EditR ==
    \E v \in {1000, 10000} :
        begin_frame("edit", [params EXCEPT !.r = v], is_paused) /\ same_device

EditD ==
    \E v \in {100, 2000} :
        begin_frame("edit", [params EXCEPT !.d = v], is_paused) /\ same_device

EditMu ==
    \E v \in {0, 1000} :
        begin_frame("edit", [params EXCEPT !.mu = v], is_paused) /\ same_device

EditC ==
    \E v \in {0, 1000} :
        begin_frame("edit", [params EXCEPT !.c = v], is_paused) /\ same_device

EditDt ==
    \E v \in {1, 50} :
        begin_frame("edit", [params EXCEPT !.dt = v], is_paused) /\ same_device

EditMagnitude ==
    \E v \in {0, 100} :
        begin_frame("edit", [params EXCEPT !.velocity_magnitude = v], is_paused)
        /\ same_device

EditAngle ==
    \E v \in {0, 45, TAU} :
        begin_frame("edit", [params EXCEPT !.velocity_angle = v], is_paused)
        /\ same_device

EditPattern_mutant_restarts ==
    \E v \in 0..3 :
        /\ begin_frame("edit", [params EXCEPT !.velocity_pattern = v], is_paused)
        /\ LET r == restart(callback_resources, objects, next_id, width, height, scale,
                            [params EXCEPT !.velocity_pattern = v])
           IN  /\ callback_resources' = r.callback_resources
               /\ objects' = r.objects
               /\ next_id' = r.next_id

EditPattern ==
    \E v \in 0..3 :
        begin_frame("edit", [params EXCEPT !.velocity_pattern = v], is_paused)
        /\ same_device

\* Params::default(width, height) is not defined in the sources; it is taken to be
\* the struct literal of GPUSim::new
ResetParameters == begin_frame("reset", new_params(width, height), is_paused) /\ same_device

RestartSimulation_mutant_keeps_running ==
    /\ begin_frame("restart", params, is_paused)
    /\ LET r == restart(callback_resources, objects, next_id, width, height, scale, params)
       IN  /\ callback_resources' = r.callback_resources
           /\ objects' = r.objects
           /\ next_id' = r.next_id

RestartSimulation ==
    /\ begin_frame("restart", params, TRUE)
    /\ LET r == restart(callback_resources, objects, next_id, width, height, scale, params)
       IN  /\ callback_resources' = r.callback_resources
           /\ objects' = r.objects
           /\ next_id' = r.next_id

RandomizeVelocity ==
    \E vm \in {5, 79}, va \in {135, 315}, vp \in {0, 3} :
        begin_frame("edit", [params EXCEPT !.velocity_magnitude = vm,
                                           !.velocity_angle = va,
                                           !.velocity_pattern = vp], is_paused)
        /\ same_device

PresetChaotic ==
    begin_frame("edit", [params EXCEPT !.n = 3, !.r = 2500, !.d = 200, !.mu = 50,
                                       !.c = 100, !.dt = 8, !.velocity_magnitude = 60,
                                       !.velocity_angle = 0, !.velocity_pattern = 0],
                is_paused) /\ same_device

PresetSmooth ==
    begin_frame("edit", [params EXCEPT !.n = 5, !.r = 4000, !.d = 600, !.mu = 400,
                                       !.c = 300, !.dt = 4, !.velocity_magnitude = 20,
                                       !.velocity_angle = 45, !.velocity_pattern = 1],
                is_paused) /\ same_device

PresetComplex ==
    begin_frame("edit", [params EXCEPT !.n = 7, !.r = 3500, !.d = 300, !.mu = 150,
                                       !.c = 250, !.dt = 5, !.velocity_magnitude = 50,
                                       !.velocity_angle = 180, !.velocity_pattern = 2],
                is_paused) /\ same_device

PresetStable ==
    begin_frame("edit", [params EXCEPT !.n = 4, !.r = 3000, !.d = 800, !.mu = 600,
                                       !.c = 400, !.dt = 3, !.velocity_magnitude = 10,
                                       !.velocity_angle = 0, !.velocity_pattern = 3],
                is_paused) /\ same_device

\* ---------------------------------------------------------------- the rest of a redraw
\* the renderer calls prepare of the frame's callback
Prepare ==
    /\ pc = "prepare"
    /\ IF callback = None
       THEN /\ pc' = "submit"
            /\ UNCHANGED <<objects, commands, frame_log>>
       ELSE LET r == prepare(callback_resources, objects, callback[1].params)
            IN  /\ pc' = IF r.panicked THEN "panic" ELSE "paint"
                /\ objects' = r.objects
                /\ commands' = commands \o r.commands
                /\ frame_log' = Append(frame_log, "prepare")
    /\ UNCHANGED <<width, height, scale, params, is_paused, callback_resources, next_id,
                   observable, callback, queue, surface, frames, edits, last_event,
                   compute_log>>
    /\ UNCHANGED harness_vars

\* the renderer calls paint of the frame's callback inside its render pass
Paint ==
    /\ pc = "paint"
    /\ LET r == paint(callback_resources)
       IN  /\ pc' = IF r.panicked THEN "panic" ELSE "submit"
           /\ commands' = commands \o r.commands
    /\ frame_log' = Append(frame_log, "paint")
    /\ UNCHANGED <<width, height, scale, params, is_paused, callback_resources, objects,
                   next_id, observable, callback, queue, surface, frames, edits, last_event,
                   compute_log>>
    /\ UNCHANGED harness_vars

\* one submission per frame: the callbacks' command buffers, then the render pass
Submit ==
    /\ pc = "submit"
    /\ queue' = queue \o commands
    /\ commands' = <<>>
    /\ pc' = "gpu"
    /\ UNCHANGED <<width, height, scale, params, is_paused, callback_resources, objects,
                   next_id, observable, callback, surface, frames, edits, frame_log, last_event,
                   compute_log>>
    /\ UNCHANGED harness_vars

\* the queue executes its commands in submission order
GpuCompute ==
    /\ pc = "gpu"
    /\ queue # <<>>
    /\ Head(queue).op = "compute"
    /\ objects' = comp_main(objects, Head(queue).bind_group, Head(queue).x, Head(queue).y)
    /\ queue' = Tail(queue)
    /\ compute_log' = Append(compute_log, callback[1].params.dt)
    /\ UNCHANGED <<width, height, scale, params, is_paused, callback_resources, next_id,
                   observable, pc, callback, commands, surface, frames, edits, frame_log,
                   last_event>>
    /\ UNCHANGED harness_vars

GpuRender ==
    /\ pc = "gpu"
    /\ queue # <<>>
    /\ Head(queue).op = "draw"
    /\ surface' = fs_main(objects, Head(queue).bind_group)
    /\ queue' = Tail(queue)
    /\ UNCHANGED <<width, height, scale, params, is_paused, callback_resources, objects,
                   next_id, observable, pc, callback, commands, frames, edits, frame_log,
                   last_event, compute_log>>
    /\ UNCHANGED harness_vars

Present ==
    /\ pc = "gpu"
    /\ queue = <<>>
    /\ pc' = "update"
    /\ UNCHANGED <<width, height, scale, params, is_paused, callback_resources, objects,
                   next_id, observable, callback, commands, queue, surface, frames,
                   edits, frame_log, last_event, compute_log>>
    /\ UNCHANGED harness_vars

\* ---------------------------------------------------------------- specifications
EngineGrids == {<<2, 2>>, <<3, 2>>}
EngineScales == {1000}
Observables == {"distance", "speed"}

\* GPUSimApp::new: the engine as new leaves it, paused
EngineStart(w, h, s, ob) ==
    LET e == new(w, h, s) IN
    /\ width = w /\ height = h /\ scale = s
    /\ params = e.params
    /\ is_paused = TRUE
    /\ callback_resources = Some(e.callback_resources)
    /\ objects = e.objects
    /\ next_id = e.next_id
    /\ observable = ob
    /\ pc = "update"
    /\ callback = None
    /\ commands = <<>>
    /\ queue = <<>>
    /\ surface = <<>>
    /\ frames = 0
    /\ edits = 0
    /\ frame_log = <<>>
    /\ last_event = "new"
    /\ compute_log = <<>>

Init ==
    /\ \E g \in EngineGrids, s \in EngineScales, ob \in Observables :
          EngineStart(g[1], g[2], s, ob)
    /\ cp_in = None /\ cp_prev = None /\ cp_out = None

Next ==
    \/ Redraw \/ TogglePause
    \/ EditN \/ EditR \/ EditD \/ EditMu \/ EditC \/ EditDt
    \/ EditMagnitude \/ EditAngle \/ EditPattern
    \/ ResetParameters \/ RestartSimulation \/ RandomizeVelocity
    \/ PresetChaotic \/ PresetSmooth \/ PresetComplex \/ PresetStable
    \/ Prepare \/ Paint \/ Submit \/ GpuCompute \/ GpuRender \/ Present

Spec == Init /\ [][Next]_vars

\* create_particles applied to arguments drawn from the bounded sets
SeedInit ==
    /\ EngineStart(1, 1, 1000, "distance")
    /\ cp_in \in {Some(a) : a \in SeedArgs}
    /\ cp_prev = None
    /\ cp_out = None

SeedNext == Call \/ CallAgain

SeedSpec == SeedInit /\ [][SeedNext]_vars

\* ---------------------------------------------------------------- the engine's own interface
\* GPUSim's params field is public and prepare and paint are public trait methods: a
\* holder of a GPUSim may store any ParameterSet in it and call them in any order
AnyParams ==
    {with_other([new_params(width, height) EXCEPT !.velocity_pattern = vp], o) :
        vp \in {2, 7}, o \in OtherFields}

\* a callback holding a GPUSim with any ParameterSet is handed to the renderer
ApiFrame == \E p \in AnyParams : begin_frame("api", p, FALSE) /\ same_device

\* restart on a GPUSim holding any ParameterSet, then a redraw
ApiRestart ==
    \E p \in AnyParams :
        /\ begin_frame("restart", p, FALSE)
        /\ LET r == restart(callback_resources, objects, next_id, width, height, scale, p)
           IN  /\ callback_resources' = r.callback_resources
               /\ objects' = r.objects
               /\ next_id' = r.next_id

\* paint called in a render pass whose callback was not prepared
ApiPaint ==
    /\ pc = "update"
    /\ frames < MaxFrames
    /\ callback' = Some([params |-> params])
    /\ pc' = "paint"
    /\ frames' = frames + 1
    /\ frame_log' = <<>>
    /\ last_event' = "paint"
    /\ UNCHANGED <<width, height, scale, params, is_paused, observable, commands, queue,
                   surface, edits, compute_log>>
    /\ same_device
    /\ UNCHANGED harness_vars

\* restart on a GPUSim holding any ParameterSet, with no redraw after it
ApiRestartOnly ==
    \E p \in AnyParams :
        /\ pc = "update"
        /\ frames < MaxFrames
        /\ frames' = frames + 1
        /\ params' = p
        /\ last_event' = "restart"
        /\ LET r == restart(callback_resources, objects, next_id, width, height, scale, p)
           IN  /\ callback_resources' = r.callback_resources
               /\ objects' = r.objects
               /\ next_id' = r.next_id
        /\ UNCHANGED <<width, height, scale, is_paused, observable, pc, callback, commands,
                       queue, surface, edits, frame_log, compute_log>>
        /\ UNCHANGED harness_vars

ApiNext ==
    \/ ApiFrame \/ ApiRestart \/ ApiRestartOnly \/ ApiPaint
    \/ Prepare \/ Paint \/ Submit \/ GpuCompute \/ GpuRender \/ Present

ApiSpec == Init /\ [][ApiNext]_vars

\* ---------------------------------------------------------------- what the claims read
Res == callback_resources[1]

\* the particle buffer bound to the compute stage, and its contents
BoundParticles == objects[Res.bind_group].contents.entries[2]
Particles == objects[BoundParticles].contents

\* the uniform buffer's contents and the output image's texels
Uniform == objects[Res.param_buffer].contents
Image == objects[Res._output_tex[1]].contents.texels

FrameDone == pc = "gpu" /\ queue = <<>>

Ops(cmds) == [k \in DOMAIN cmds |-> cmds[k].op]

DefaultSeeding(p) ==
    /\ p.velocity_pattern = new_params(0, 0).velocity_pattern
    /\ p.velocity_magnitude = new_params(0, 0).velocity_magnitude
    /\ p.velocity_angle = new_params(0, 0).velocity_angle

\* the image a freshly constructed engine holding p draws after prepare(dt = 0) and paint
FreshImage(p) ==
    LET e == new(width, height, scale)
        r == prepare(Some(e.callback_resources), e.objects, [p EXCEPT !.dt = 0])
        c == r.commands[1]
        after == comp_main(r.objects, c.bind_group, c.x, c.y)
    IN  fs_main(after, paint(Some(e.callback_resources)).commands[1].bind_group)

\* C1 as stated: after a restart, prepare(dt = 0) and paint, the drawn image is the
\* image of a fresh engine holding the same ParameterSet, whatever the ParameterSet
C1_RestartEqualsFresh_AnyParams ==
    (FrameDone /\ last_event = "restart") => surface = FreshImage(params)

\* C1 amended: the same, for a ParameterSet whose velocity_pattern, velocity_magnitude
\* and velocity_angle are the ones new seeds with
C1_RestartEqualsFresh ==
    (FrameDone /\ last_event = "restart" /\ DefaultSeeding(params))
        => surface = FreshImage(params)

C1_Witness ==
    /\ FrameDone /\ last_event = "restart" /\ DefaultSeeding(params)
    /\ params.n # new_params(0, 0).n
    /\ \E k \in DOMAIN compute_log : compute_log[k] # 0
    /\ surface = FreshImage(params)

\* C2: every redraw, paused or running, invokes prepare once and then paint once, and
\* the queue runs the frame's compute pass before the render pass that reads the image
C2_PrepareThenPaint ==
    /\ pc # "panic"
    /\ pc = "prepare" => frame_log = <<>>
    /\ pc = "paint" => frame_log = <<"prepare">> /\ Ops(commands) = <<"compute">>
    /\ pc = "submit" => frame_log = <<"prepare", "paint">>
                        /\ Ops(commands) = <<"compute", "draw">>
    /\ pc = "gpu" => /\ frame_log = <<"prepare", "paint">>
                     /\ Ops(queue) \in {<<"compute", "draw">>, <<"draw">>, <<>>}
                     /\ Len(compute_log) = frames - (IF Len(queue) = 2 THEN 1 ELSE 0)
    /\ (pc = "update" /\ frames > 0) => frame_log = <<"prepare", "paint">> /\ queue = <<>>
    /\ \A k \in DOMAIN queue :
         queue[k].op = "draw" =>
            objects[objects[queue[k].bind_group].contents.entries[1]].contents
              = Res._output_tex[1]

C2_Witness ==
    /\ pc = "gpu" /\ Ops(queue) = <<"draw">>
    /\ ~is_paused
    /\ frames > 1
    /\ compute_log[Len(compute_log)] = params.dt
    /\ compute_log[1] = 0

\* C3: a compute pass of a prepare given dt = 0 that follows a compute pass of a
\* prepare given dt = 0, with no restart in between, leaves the image as it was
C3_ZeroDtIdempotent ==
    [][(/\ pc = "gpu" /\ queue # <<>> /\ Head(queue).op = "compute"
        /\ callback[1].params.dt = 0
        /\ compute_log # <<>> /\ compute_log[Len(compute_log)] = 0
        /\ last_event # "restart")
       => Image' = Image]_vars

C3_Witness ==
    /\ pc = "gpu" /\ Ops(queue) = <<"draw">>
    /\ Len(compute_log) = 3
    /\ compute_log[1] # 0 /\ compute_log[2] = 0 /\ compute_log[3] = 0
    /\ \E k \in DOMAIN Image : Image[k].src = "evolved"

\* C4: a redraw that edits sim.params and does not restart leaves the device as it was;
\* the bound particle buffer and its contents change only by restart or a compute pass;
\* the next prepare uploads the edited values
C4_EditKeepsParticles ==
    [][/\ (pc = "update" /\ last_event' \in {"edit", "reset"})
            => /\ callback_resources' = callback_resources
               /\ objects' = objects
               /\ callback'[1].params = [params' EXCEPT !.dt = IF is_paused' THEN 0 ELSE @]
       /\ (BoundParticles' # BoundParticles \/ Particles' # Particles)
            => \/ pc = "update" /\ last_event' = "restart"
               \/ pc = "gpu" /\ queue # <<>> /\ Head(queue).op = "compute"
       /\ (pc = "prepare" /\ pc' = "paint") => Uniform' = callback[1].params
      ]_vars

C4_Witness ==
    /\ pc = "paint" /\ last_event = "edit"
    /\ params.n = 3 /\ Uniform.n = 3
    /\ \E k \in DOMAIN Particles : Particles[k].steps # <<>>

\* ---------------------------------------------------------------- create_particles
Args == cp_in[1]
Out == cp_out[1]
Called == cp_out # None

Cross(a, b) == a.x * b.y - a.y * b.x
Dot(a, b) == a.x * b.x + a.y * b.y

\* v has length m tenths and, unless it is zero, the direction of the vector d
HasLengthAndDirection(v, m, d) ==
    /\ v # NaN
    /\ Len2Num(v) = m * m * Len2Den(v)
    /\ Cross(v, d) = 0
    /\ Dot(v, d) >= 0
    /\ m # 0 => Dot(v, d) > 0

\* C5: a second call that agrees with the first on width, height, scale and the three
\* velocity fields, and differs in n, r, d, mu, c and dt, returns the same array
C5_DependsOnSeedFieldsOnly ==
    cp_prev # None => cp_out = cp_prev

C5_Witness ==
    /\ cp_prev # None
    /\ cp_out = cp_prev
    /\ Len(Out) = Args.width * Args.height
    /\ Len(Out) > 1
    /\ Args.params.velocity_pattern = 2
    /\ Args.params.velocity_magnitude = 40
    /\ Args.params.n = 0 /\ Args.params.dt < 0

IsScenarioC6 ==
    /\ Called
    /\ Args.width = 4 /\ Args.height = 4 /\ Args.scale = 1000
    /\ DefaultSeeding(Args.params)

\* C6 as stated: in the 4 x 4, scale 1.0, default-parameter scenario the particle of
\* grid index (0,0) is at (-0.375, -0.375)
C6_FirstParticleAtCellCentre ==
    IsScenarioC6 =>
        /\ Out[1].u.x = -375 * Out[1].u.den
        /\ Out[1].u.y = -375 * Out[1].u.den

\* C6 amended: in that scenario the particle of grid index (0,0) is at (-0.5, -0.5), and
\* its velocity is the perpendicular of its position turned by PI/2, with length 4.0
C6_FirstParticle ==
    IsScenarioC6 =>
        /\ Out[1].u.x = -500 * Out[1].u.den
        /\ Out[1].u.y = -500 * Out[1].u.den
        /\ Out[1].u.rad = 1
        /\ HasLengthAndDirection(Out[1].du, 40, [x |-> 1, y |-> 1])

C6_Witness ==
    /\ IsScenarioC6
    /\ Len(Out) = 16
    /\ Out[1].du.x > 0 /\ Out[1].du.x = Out[1].du.y

\* C7: with velocity_pattern 3, or any value other than 0, 1 and 2, every particle has
\* velocity (0,0)
C7_ZeroPattern ==
    (Called /\ Args.params.velocity_pattern \notin {0, 1, 2})
        => \A k \in DOMAIN Out : Out[k].du = ZERO

C7_Witness ==
    /\ Called
    /\ Args.params.velocity_pattern = 7
    /\ Args.params.velocity_magnitude = 100
    /\ Len(Out) > 1
    /\ \A k \in DOMAIN Out : Out[k].du = ZERO

\* C8: with velocity_pattern 2 every particle has the same velocity, of length
\* velocity_magnitude and direction velocity_angle
C8_UniformPattern ==
    (Called /\ Args.params.velocity_pattern = 2)
        => \A k \in DOMAIN Out :
              /\ Out[k].du = Out[1].du
              /\ HasLengthAndDirection(Out[k].du, Args.params.velocity_magnitude,
                                       from_angle(Args.params.velocity_angle))

C8_Witness ==
    /\ Called
    /\ Args.params.velocity_pattern = 2
    /\ Args.params.velocity_magnitude = 40
    /\ Args.params.velocity_angle = 135
    /\ Args.scale = 1000
    /\ Len(Out) > 3
    /\ Out[1].u # Out[Len(Out)].u
    /\ Out[1].du = Out[Len(Out)].du

\* the position is within 0.001 of the origin
Near(u) == u.x * u.x + u.y * u.y <= u.den * u.den

\* the vector b turned by the angle a, up to a positive factor
Turned(b, a) ==
    [x |-> b.x * from_angle(a).x - b.y * from_angle(a).y,
     y |-> b.y * from_angle(a).x + b.x * from_angle(a).y]

\* C9: with velocity_pattern 0 or 1, a particle within 0.001 of the origin has velocity
\* velocity_magnitude times the unit vector at velocity_angle (0) or velocity_angle + 90
\* degrees (1), and nothing is normalised there; any other particle has velocity
\* velocity_magnitude times its normalised position (0) or perpendicular (1), turned by
\* velocity_angle
C9_OriginFallback ==
    (Called /\ Args.params.velocity_pattern \in {0, 1})
        => \A k \in DOMAIN Out :
              LET u == Out[k].u
                  p == Args.params
                  tangent == p.velocity_pattern = 1
              IN  /\ Out[k].du # NaN
                  /\ Near(u) =>
                       Out[k].du = scaled(p.velocity_magnitude,
                                          from_angle(p.velocity_angle
                                                     + (IF tangent THEN 90 ELSE 0)))
                  /\ ~Near(u) =>
                       HasLengthAndDirection(
                           Out[k].du, p.velocity_magnitude,
                           Turned(IF tangent THEN [x |-> -u.y, y |-> u.x] ELSE u,
                                  p.velocity_angle))

C9_Witness ==
    /\ Called
    /\ Args.params.velocity_pattern = 0
    /\ Args.params.velocity_magnitude = 40
    /\ Args.params.velocity_angle = 45
    /\ \E k \in DOMAIN Out : Out[k].u.x = 0 /\ Out[k].u.y = 0 /\ Out[k].du.x = 40
                                /\ Out[k].du.y = 40
    /\ \E k \in DOMAIN Out : ~Near(Out[k].u) /\ Out[k].du # NaN

\* C10: width * height particles; the one of index i is at
\* ((i mod width) / width - 0.5, (i div width) / height - 0.5) * scale; one per grid cell
C10_RowMajorGrid ==
    Called =>
        LET w == Args.width
            h == Args.height
        IN  /\ DOMAIN Out = 1..(w * h)
            /\ \A k \in DOMAIN Out :
                  LET col == (k - 1) % w
                      row == (k - 1) \div w
                      u == Out[k].u
                  IN  /\ u.rad = 1 /\ u.den > 0
                      /\ u.x * 2 * w = (2 * col - w) * Args.scale * u.den
                      /\ u.y * 2 * h = (2 * row - h) * Args.scale * u.den
            /\ Args.scale # 0 => Cardinality({Out[k].u : k \in DOMAIN Out}) = w * h

C10_Witness ==
    /\ Called
    /\ Args.width = 3 /\ Args.height = 2 /\ Args.scale = 1000
    /\ Len(Out) = 6
    /\ Out[4].u.x * 2 = -Out[4].u.den * 1000 /\ Out[4].u.y = 0

\* the resources the compute bind group binds: uniform, particles, image view, colormap
Bound(k) == objects[Res.bind_group].contents.entries[k]

\* the step of update that handles a press of Restart Simulation
RestartStep == pc = "update" /\ last_event' = "restart"

\* C11 as stated: after restart the compute bind group binds the uniform buffer, the
\* colormap buffer and the output image view it bound before, and a particle buffer
\* that did not exist before
C11_RestartReusesThree ==
    [][RestartStep =>
         /\ Bound(1)' = Bound(1)
         /\ Bound(3)' = Bound(3)
         /\ Bound(4)' = Bound(4)
         /\ Bound(2)' \notin DOMAIN objects]_vars

\* the ParameterSet of the callback the renderer is running
Given == callback[1].params

\* C12: prepare, whatever ParameterSet it is given, does not fail, leaves exactly that
\* ParameterSet in the uniform buffer and records one compute dispatch; the uniform
\* buffer still holds it when the queue runs that dispatch
C12_PrepareUploadsAsGiven ==
    [][/\ (pc = "prepare" /\ callback # None)
            => /\ pc' = "paint"
               /\ Uniform' = Given
               /\ Ops(commands') = Append(Ops(commands), "compute")
       /\ (pc = "gpu" /\ queue # <<>> /\ Head(queue).op = "compute") => Uniform = Given
      ]_vars

C12_Witness ==
    /\ pc = "gpu" /\ Ops(queue) = <<"compute", "draw">>
    /\ Given.n = 0 /\ Given.dt < 0 /\ Given.velocity_pattern = 7
    /\ Uniform = Given

\* the compute dispatches recorded or queued
Dispatches ==
    {commands[k] : k \in {j \in DOMAIN commands : commands[j].op = "compute"}}
    \cup {queue[k] : k \in {j \in DOMAIN queue : queue[j].op = "compute"}}

OutputTexture == objects[Res._output_tex[1]].contents

\* C13: every dispatch is width by height, the dimensions given at construction, which
\* are the particle count of the particle buffer it is bound to and the dimensions of
\* the output image; when it runs, every particle has its invocation
C13_DispatchMatchesParticles ==
    /\ Len(Particles) = width * height
    /\ OutputTexture.width = width /\ OutputTexture.height = height
    /\ Len(Image) = width * height
    /\ \A c \in Dispatches :
         /\ c.x = width /\ c.y = height
         /\ c.bind_group = Res.bind_group
         /\ c.x * c.y = Len(Particles)
    /\ (pc = "gpu" /\ queue # <<>> /\ Head(queue).op = "compute")
         => \A k \in DOMAIN Particles : covered(k, Uniform, Head(queue).x, Head(queue).y)

C13_Witness ==
    /\ pc = "gpu" /\ Ops(queue) = <<"compute", "draw">>
    /\ width = 3 /\ height = 2
    /\ last_event = "restart" /\ edits = 1 /\ frames = 3
    /\ params.velocity_pattern # new_params(0, 0).velocity_pattern
    /\ BoundParticles # 2
    /\ Head(queue).x = 3 /\ Head(queue).y = 2
    /\ Len(Particles) = 6

\* the image a compute pass would write for the particles now bound
ImageOfParticles == [k \in DOMAIN Particles |-> texel_of(Particles[k])]

IsZero(t) == t.src = "zero" /\ t.val = <<0, 0>>

\* C14 as stated: what paint draws before any compute pass has run shows the seeded
\* particle state
C14_PaintBeforePrepareShowsSeed ==
    (surface # <<>> /\ compute_log = <<>>) => surface = ImageOfParticles

\* C14 amended: before any compute pass has run the output image is the texture as the
\* device created it, every texel zero, and that is what paint draws
C14_PaintBeforePrepareShowsZero ==
    compute_log = <<>> =>
        /\ \A k \in DOMAIN Image : IsZero(Image[k])
        /\ surface # <<>> => \A k \in DOMAIN surface : IsZero(surface[k])

C14_Witness ==
    /\ pc = "update" /\ last_event = "paint" /\ frame_log = <<"paint">>
    /\ compute_log = <<>>
    /\ DOMAIN surface = 1..(width * height)
    /\ \A k \in DOMAIN surface : IsZero(surface[k])
    /\ surface # ImageOfParticles

\* C15: Particle is four f32 in 16 bytes with no padding; Params is 12 scalar fields of
\* 4 bytes in declaration order, the last an explicit padding field, 48 bytes, a
\* multiple of 16; the buffers hold values of exactly these fields
C15_Layouts ==
    /\ scalars_of(Particle_fields, Len(Particle_fields)) = <<"f32", "f32", "f32", "f32">>
    /\ size_of(Particle_fields) = 16
    /\ bytes_of(Particle_fields, Len(Particle_fields)) = size_of(Particle_fields)
    /\ Len(Params_fields) = 12
    /\ \A k \in DOMAIN Params_fields :
         /\ Params_fields[k][2] \in {"u32", "f32"}
         /\ size_of_ty(Params_fields[k][2]) = 4
         /\ end_of(Params_fields, k) = 4 * k
    /\ Params_fields[12][1] = "_padding"
    /\ size_of(Params_fields) = 48
    /\ size_of(Params_fields) % 16 = 0
    /\ DOMAIN Uniform = field_names(Params_fields)
    /\ DOMAIN params = field_names(Params_fields)
    /\ \A k \in DOMAIN Particles : field_names(Particle_fields) \subseteq DOMAIN Particles[k]

C15_Witness ==
    /\ pc = "paint" /\ last_event = "edit" /\ frames = 2
    /\ Uniform.n = 7 /\ Uniform._padding = 0
    /\ Cardinality(DOMAIN Uniform) * 4 = size_of(Params_fields)
    /\ Len(Particles) * size_of(Particle_fields) = 16 * width * height
    /\ width = 3

\* the draws recorded or queued
Draws ==
    {commands[k] : k \in {j \in DOMAIN commands : commands[j].op = "draw"}}
    \cup {queue[k] : k \in {j \in DOMAIN queue : queue[j].op = "draw"}}

ComputeStep == pc = "gpu" /\ queue # <<>> /\ Head(queue).op = "compute"
RenderStep == pc = "gpu" /\ queue # <<>> /\ Head(queue).op = "draw"

\* everything a draw can reach: its pipeline, vertex buffer and bind group
DrawReaches(c) == reachable(objects, {c.pipeline, c.vertex_buffer, c.bind_group})

\* the render stage's bindings: the sampled output image and a sampler, nothing else
RenderBindings ==
    /\ \A c \in Draws :
         LET bg == objects[c.bind_group].contents IN
         /\ c.bind_group = Res.render_bg
         /\ [k \in DOMAIN bg.entries |-> objects[bg.entries[k]].kind]
              = <<"texture_view", "sampler">>
         /\ objects[bg.entries[1]].contents = Res._output_tex[1]
         /\ [k \in DOMAIN bg.entries |-> objects[bg.layout].contents[k].ty]
              = <<"Texture", "Sampler">>
         /\ \A id \in DrawReaches(c) :
              objects[id].kind = "buffer" => id = Res.vertex_buffer
         /\ BoundParticles \notin DrawReaches(c)

\* C16: the contents of the bound particle buffer and of the output image change only
\* in a compute pass, which changes nothing else; a render pass changes no object and
\* is bound to the sampled output image and a sampler only, never to the particle buffer
C16_ComputeIsTheOnlyWriter ==
    /\ []RenderBindings
    /\ [][/\ \A id \in DOMAIN objects \cap DOMAIN objects' :
               (/\ id = BoundParticles \/ objects[id].kind = "texture"
                /\ objects'[id] # objects[id]) => ComputeStep
          /\ ComputeStep =>
               \A id \in DOMAIN objects :
                  objects'[id] # objects[id] => id \in {BoundParticles, Res._output_tex[1]}
          /\ RenderStep => objects' = objects /\ surface' = Image
         ]_vars

C16_Witness ==
    /\ pc = "gpu" /\ Ops(queue) = <<"draw">>
    /\ RenderBindings
    /\ last_event = "restart" /\ BoundParticles # 2
    /\ compute_log = <<6, 6, 0>>
    /\ \A k \in DOMAIN Particles : Particles[k].steps = <<>>
    /\ \A k \in DOMAIN Image : Image[k].src = "seed"
    /\ \E k \in DOMAIN surface : surface[k].src = "evolved"

\* the step of update that handles a slider, a preset, Randomize or Reset Parameters
EditStep == pc = "update" /\ last_event' \in {"edit", "reset"}

\* C17: restart binds a particle buffer seeded by create_particles from the
\* construction-time width, height and scale and the ParameterSet the host holds when
\* it calls restart; an edit of the ParameterSet leaves the bound particles as they are
C17_RestartSeedsFromCurrentParams ==
    [][/\ RestartStep =>
            /\ Particles' = particle_bytes(create_particles(width, height, scale, params))
            /\ params' = params
       /\ EditStep => BoundParticles' = BoundParticles /\ Particles' = Particles
      ]_vars

C17_Witness ==
    /\ pc = "prepare" /\ last_event = "restart" /\ frames = 2 /\ edits = 1
    /\ params.velocity_pattern = 3
    /\ BoundParticles # 2
    /\ \A k \in DOMAIN Particles : Particles[k].du = ZERO /\ Particles[k].steps = <<>>
    /\ Particles # particle_bytes(create_particles(width, height, scale,
                                                   new_params(width, height)))

\* the bind-group layouts and pipelines that exist
Layouts == {id \in DOMAIN objects : objects[id].kind = "bind_group_layout"}
Pipelines ==
    {id \in DOMAIN objects : objects[id].kind \in {"compute_pipeline", "render_pipeline"}}

\* C18 as stated: restart keeps the pipelines and bind-group layouts that exist, creates
\* no layout, and the compute bind group it makes has the layout the old one had
C18_RestartKeepsLayouts ==
    [][RestartStep =>
         /\ Res'.compute_pipeline = Res.compute_pipeline
         /\ Res'.render_pipeline = Res.render_pipeline
         /\ Pipelines' = Pipelines
         /\ \A id \in Pipelines : objects'[id] = objects[id]
         /\ Layouts' = Layouts
         /\ objects'[Res'.bind_group].contents.layout = objects[Res.bind_group].contents.layout
      ]_vars

\* the step of update that handles a press of Play or Pause
ToggleStep == pc = "update" /\ last_event' = "toggle"

\* C19: the ParameterSet a frame's prepare is given is the stored one, with dt = 0 when
\* paused, and prepare uploads it; a press of Play or Pause flips is_paused and leaves
\* the stored ParameterSet, its dt included, and every device object as they are
C19_PauseIsOnlyDtZero ==
    /\ [](pc \in {"prepare", "paint", "submit", "gpu"} =>
            /\ callback # None
            /\ Given = IF is_paused THEN [params EXCEPT !.dt = 0] ELSE params)
    /\ [][/\ ToggleStep =>
               /\ is_paused' = ~is_paused
               /\ params' = params
               /\ objects' = objects
               /\ callback_resources' = callback_resources
               /\ next_id' = next_id
          /\ (pc = "prepare" /\ ~is_paused) => Uniform'.dt = params.dt
          /\ (pc = "prepare" /\ is_paused) => Uniform' = [params EXCEPT !.dt = 0]
         ]_vars

C19_Witness ==
    /\ pc = "paint" /\ last_event = "toggle" /\ ~is_paused
    /\ frames = 3
    /\ compute_log = <<6, 0>>
    /\ params.dt = 6 /\ Uniform.dt = 6
    /\ DOMAIN objects = 1..16

\* the image view the render bind group samples
Sampled == objects[Res.render_bg].contents.entries[1]

\* C20: binding 2 of the compute bind group and binding 0 of the render bind group are
\* one view of the one output texture, kept in the registry entry; no step replaces or
\* changes the render bind group; a render pass draws the image as the compute passes
\* so far left it
C20_ComputeWritesWhatRenderSamples ==
    /\ [](/\ Bound(3) = Sampled
          /\ Sampled = Res._output_tex[2]
          /\ objects[Sampled].kind = "texture_view"
          /\ objects[Sampled].contents = Res._output_tex[1]
          /\ objects[Res._output_tex[1]].kind = "texture")
    /\ [][/\ Res'.render_bg = Res.render_bg
          /\ objects'[Res.render_bg] = objects[Res.render_bg]
          /\ Res'._output_tex = Res._output_tex
          /\ RenderStep =>
               surface' = objects[objects[Bound(3)].contents].contents.texels
         ]_vars

C20_Witness ==
    /\ pc = "gpu" /\ queue = <<>>
    /\ frames = 3 /\ last_event = "none"
    /\ Res.bind_group = 24 /\ Res.render_bg = 14
    /\ Bound(3) = 9 /\ Sampled = 9
    /\ compute_log = <<0, 0, 0>>
    /\ surface = ImageOfParticles

\* C21: the registry holds the engine's resource bundle in every state and no unwrap
\* panics: prepare and paint find the bundle, and restart finds it and puts a bind
\* group that did not exist before in the place of the old one, which is dropped
C21_BundleAlwaysRegistered ==
    /\ [](callback_resources # None /\ pc # "panic")
    /\ [][/\ callback_resources' # None
          /\ (pc = "prepare" /\ callback # None)
               => /\ ~prepare(callback_resources, objects, Given).panicked
                  /\ pc' = "paint"
          /\ pc = "paint"
               => /\ ~paint(callback_resources).panicked
                  /\ pc' = "submit"
          /\ RestartStep
               => /\ restart(callback_resources, objects, next_id, width, height, scale,
                             params).callback_resources # callback_resources
                  /\ Res'.bind_group \notin DOMAIN objects
                  /\ Res'.bind_group \in DOMAIN objects'
                  /\ Res.bind_group \notin DOMAIN objects'
                  /\ objects'[Res'.bind_group].kind = "bind_group"
                  /\ Res' = [Res EXCEPT !.bind_group = Res'.bind_group]
         ]_vars

C21_Witness ==
    /\ pc = "gpu" /\ queue = <<>>
    /\ last_event = "restart" /\ frames = 3
    /\ frame_log = <<"prepare", "paint">>
    /\ callback_resources # None
    /\ Res.bind_group = 24
    /\ DOMAIN surface = 1..(width * height)
    /\ Len(compute_log) = 3

\* C22: the host is paused until the first press of Play and after every restart until
\* the next press of Play: only a press of Play ends a pause, and every prepare of a
\* paused host is given dt = 0 and uploads dt = 0
C22_PausedFromRestartUntilPlay ==
    /\ [](last_event \in {"new", "restart"} => is_paused)
    /\ [][/\ RestartStep => is_paused'
          /\ (is_paused /\ ~is_paused') => ToggleStep
          /\ (pc = "prepare" /\ is_paused) => Given.dt = 0 /\ Uniform'.dt = 0
         ]_vars

C22_Witness ==
    /\ pc = "gpu" /\ queue = <<>>
    /\ frames = 3 /\ last_event = "none" /\ is_paused
    /\ compute_log = <<6, 0, 0>>
    /\ params.dt = 6 /\ Uniform.dt = 0
    /\ BoundParticles = 17
    /\ \A k \in DOMAIN Particles : Particles[k].steps = <<>>

\* what paint would draw now
Painted == fs_main(objects, Res.render_bg)

\* C23: restart leaves the output texture, its texels included, and what paint draws
\* as they were; a render pass draws the image as it is, whatever particle buffer is
\* bound
C23_RestartKeepsImage ==
    [][/\ RestartStep =>
            /\ Res'._output_tex = Res._output_tex
            /\ objects'[Res._output_tex[1]] = objects[Res._output_tex[1]]
            /\ Image' = Image
            /\ Painted' = Painted
       /\ RenderStep => surface' = Image
      ]_vars

C23_Witness ==
    /\ pc = "update" /\ last_event = "paint" /\ frames = 3
    /\ compute_log = <<6>>
    /\ BoundParticles = 17
    /\ \A k \in DOMAIN Particles : Particles[k].steps = <<>>
    /\ \A k \in DOMAIN surface : surface[k].src = "evolved"
    /\ surface = Image
    /\ surface # ImageOfParticles

====
